---- MODULE Spec2Model ----
(***************************************************************************)
(* Model of scripts/generate_changelog.py.                                 *)
(*                                                                         *)
(* Text is modelled at character level: a Python str is a sequence of      *)
(* one-character strings, so split, join, startswith/endswith, capitalize  *)
(* and string comparison are computed as Python computes them.  A Python   *)
(* dict is a sequence of <<key, value>> pairs in insertion order.          *)
(*                                                                         *)
(* Two specifications:                                                     *)
(*   Spec      calls parse_commits and then generate_markdown (up to       *)
(*             MaxCalls times) on an input list of commit lines;           *)
(*   SpecMain  runs main(): the two git commands, the parse, the render    *)
(*             and the writes of Changelog.md, with the failures the       *)
(*             environment can produce.                                    *)
(***************************************************************************)
EXTENDS Integers, Sequences, FiniteSets, TLC

VARIABLES
    mode,       \* "fn": function-level calls, "main": a run of main()
    pc,         \* position of the caller / of main()
    commits,    \* the list of commit lines given to parse_commits
    changelog,  \* the dict returned by parse_commits (generate_markdown mutates it)
    outputs,    \* the texts returned by generate_markdown, one per call
    gitout,     \* stdout of the git log command, as produced by git
    last_tag,   \* what the tag lookup returned (Unset before it returns)
    file,       \* content of Changelog.md (Prior: what was there before the run)
    raised      \* TRUE once an exception reached the handler of main()

vars == <<mode, pc, commits, changelog, outputs, gitout, last_tag, file, raised>>

----------------------------------------------------------------------------
(* Bounds *)

\* tokens after the hash in a generated single commit line
MaxTail == 2
\* lines in a generated list of commits
MaxCommits == 3
\* calls of generate_markdown on one changelog
MaxCalls == 2

----------------------------------------------------------------------------
(* Python values *)

\* Python's None (not a str: its element is not a single character)
None == <<"None">>

\* a local variable that was never assigned
Unset == <<"Unset">>

\* content of Changelog.md before the run (not a str either)
Prior == <<"Prior">>

SP == " "
NL == "\n"

LowerCase == <<"a", "b", "c", "d", "e", "f", "g", "h", "i", "j", "k", "l", "m",
               "n", "o", "p", "q", "r", "s", "t", "u", "v", "w", "x", "y", "z">>
UpperCase == <<"A", "B", "C", "D", "E", "F", "G", "H", "I", "J", "K", "L", "M",
               "N", "O", "P", "Q", "R", "S", "T", "U", "V", "W", "X", "Y", "Z">>
Digits == <<"0", "1", "2", "3", "4", "5", "6", "7", "8", "9">>

IndexIn(seq, c) == CHOOSE i \in 1..Len(seq) : seq[i] = c
IsIn(seq, c) == \E i \in 1..Len(seq) : seq[i] = c

\* code point of a character (the order Python compares str by)
Ord(c) ==
    IF IsIn(LowerCase, c) THEN 96 + IndexIn(LowerCase, c)
    ELSE IF IsIn(UpperCase, c) THEN 64 + IndexIn(UpperCase, c)
    ELSE IF IsIn(Digits, c) THEN 47 + IndexIn(Digits, c)
    ELSE CASE c = "\n" -> 10
           [] c = " " -> 32
           [] c = "#" -> 35
           [] c = "-" -> 45
           [] c = ":" -> 58
           [] c = "[" -> 91
           [] c = "]" -> 93

ToUpper(c) == IF IsIn(LowerCase, c) THEN UpperCase[IndexIn(LowerCase, c)] ELSE c
ToLower(c) == IF IsIn(UpperCase, c) THEN LowerCase[IndexIn(UpperCase, c)] ELSE c

CapitalizeNone(s) == s

\* str.capitalize(): first character upper-cased, the rest lower-cased
Capitalize(s) ==
    [i \in 1..Len(s) |-> IF i = 1 THEN ToUpper(s[i]) ELSE ToLower(s[i])]

\* s[from:] with a 0-based Python index
SliceFrom(s, from) == SubSeq(s, from + 1, Len(s))

\* str.startswith / str.endswith with a one-character argument
StartsWith(s, c) == Len(s) >= 1 /\ s[1] = c
EndsWith(s, c) == Len(s) >= 1 /\ s[Len(s)] = c

\* str.split(sep) with a one-character separator: empty fields are kept
RECURSIVE Split(_, _)
Split(s, sep) ==
    IF ~IsIn(s, sep) THEN <<s>>
    ELSE LET k == CHOOSE i \in 1..Len(s) :
                      s[i] = sep /\ \A j \in 1..(i - 1) : s[j] # sep
         IN <<SubSeq(s, 1, k - 1)>> \o Split(SubSeq(s, k + 1, Len(s)), sep)

\* sep.join(parts)
RECURSIVE Join(_, _)
Join(parts, sep) ==
    IF Len(parts) = 0 THEN <<>>
    ELSE IF Len(parts) = 1 THEN parts[1]
    ELSE parts[1] \o sep \o Join(Tail(parts), sep)

\* str.strip(): leading and trailing whitespace removed
IsSpace(c) == c = SP \/ c = NL
RECURSIVE Strip(_)
Strip(s) ==
    IF Len(s) = 0 THEN s
    ELSE IF IsSpace(s[1]) THEN Strip(Tail(s))
    ELSE IF IsSpace(s[Len(s)]) THEN Strip(SubSeq(s, 1, Len(s) - 1))
    ELSE s

\* str.splitlines(): no empty last line after a final line break
SplitLines(s) ==
    IF Len(s) = 0 THEN <<>>
    ELSE IF s[Len(s)] = NL THEN Split(SubSeq(s, 1, Len(s) - 1), NL)
    ELSE Split(s, NL)

\* list.index(x) as a 0-based index of the first equal element
ListIndex(list, x) ==
    (CHOOSE i \in 1..Len(list) :
        list[i] = x /\ \A j \in 1..(i - 1) : list[j] # x) - 1

----------------------------------------------------------------------------
(* dict: a sequence of <<key, value>> pairs in insertion order *)

Keys(d) == [i \in 1..Len(d) |-> d[i][1]]
HasKey(d, k) == \E i \in 1..Len(d) : d[i][1] = k
Get(d, k) == d[CHOOSE i \in 1..Len(d) : d[i][1] = k][2]
\* dict.get(k, default)
GetOr(d, k, default) == IF HasKey(d, k) THEN Get(d, k) ELSE default
\* d[k] = v: an existing key keeps its place, a new key goes last
Put(d, k, v) ==
    IF HasKey(d, k)
    THEN [i \in 1..Len(d) |-> IF d[i][1] = k THEN <<k, v>> ELSE d[i]]
    ELSE Append(d, <<k, v>>)
\* the dict left by d.pop(k, default)
Without(d, k) == SelectSeq(d, LAMBDA e : e[1] # k)

----------------------------------------------------------------------------
(* String literals of the program *)

ADDED == <<":", "s", "p", "a", "r", "k", "l", "e", "s", ":", " ", "A", "d", "d", "e", "d">>
CHANGED == <<":", "r", "e", "c", "y", "c", "l", "e", ":", " ", "C", "h", "a", "n", "g", "e", "d">>
FIXED == <<":", "b", "u", "g", ":", " ", "F", "i", "x", "e", "d">>
MISC == <<":", "w", "r", "e", "n", "c", "h", ":", " ", "M", "i", "s", "c">>

SPARKLES == <<":", "s", "p", "a", "r", "k", "l", "e", "s", ":">>
BOOM == <<":", "b", "o", "o", "m", ":">>
RECYCLE == <<":", "r", "e", "c", "y", "c", "l", "e", ":">>
BUG == <<":", "b", "u", "g", ":">>
BOOKMARK == <<":", "b", "o", "o", "k", "m", "a", "r", "k", ":">>

PROJECT == <<"p", "r", "o", "j", "e", "c", "t">>

ProjectHeading == <<"#", " ", "P", "r", "o", "j", "e", "c", "t", "\n", "\n">>
ModuleHeading == <<"#", " ", "M", "o", "d", "u", "l", "e", ":", " ">>
CategoryHeading == <<"#", "#", " ">>
Bullet == <<"-", " ">>
ColonSpace == <<":", " ">>

----------------------------------------------------------------------------
(* parse_commits *)

\* the default_factory of the changelog: four empty lists, in this order
NewModule == << <<ADDED, <<>> >>, <<CHANGED, <<>> >>, <<FIXED, <<>> >>, <<MISC, <<>> >> >>

gitmoji_categories_swapped ==
    << <<SPARKLES, ADDED>>, <<BOOM, CHANGED>>, <<RECYCLE, CHANGED>>, <<BUG, FIXED>> >>

gitmoji_categories ==
    << <<SPARKLES, ADDED>>, <<BOOM, ADDED>>, <<RECYCLE, CHANGED>>, <<BUG, FIXED>> >>

IsBracketed(part) == StartsWith(part, "[") /\ EndsWith(part, "]")
IsColoned(part) == StartsWith(part, ":") /\ EndsWith(part, ":")

\* part[1:-1]
Inner(part) == SubSeq(part, 2, Len(part) - 1)

ModuleNameKeepBrackets(parts) ==
    IF \E i \in 1..Len(parts) : IsBracketed(parts[i])
    THEN parts[CHOOSE i \in 1..Len(parts) :
             IsBracketed(parts[i]) /\ \A j \in 1..(i - 1) : ~IsBracketed(parts[j])]
    ELSE PROJECT

\* module_name: the inside of the first part that starts with [ and ends
\* with ], "project" when there is none; parts[0] is scanned like the rest
ModuleName(parts) ==
    IF \E i \in 1..Len(parts) : IsBracketed(parts[i])
    THEN Inner(parts[CHOOSE i \in 1..Len(parts) :
                   IsBracketed(parts[i])
                   /\ \A j \in 1..(i - 1) : ~IsBracketed(parts[j])])
    ELSE PROJECT

\* gitmoji: the first part that starts and ends with a colon, else None;
\* parts[0] is scanned like the rest
Gitmoji(parts) ==
    IF \E i \in 1..Len(parts) : IsColoned(parts[i])
    THEN parts[CHOOSE i \in 1..Len(parts) :
             IsColoned(parts[i]) /\ \A j \in 1..(i - 1) : ~IsColoned(parts[j])]
    ELSE None

GitmojiIndex(parts) ==
    IF Gitmoji(parts) # None THEN ListIndex(parts, Gitmoji(parts)) ELSE 1

\* an index of 0 is falsy: the message is then the empty string
CommitMessage(parts) ==
    IF GitmojiIndex(parts) # 0
    THEN Join(SliceFrom(parts, GitmojiIndex(parts) + 1), <<SP>>)
    ELSE <<>>

Category(gitmoji) == GetOr(gitmoji_categories, gitmoji, MISC)

\* f"{commit_hash}: {commit_message}"
Entry(parts) == parts[1] \o ColonSpace \o CommitMessage(parts)

\* changelog[module_name][category].append(entry) on a defaultdict
AppendEntry(log, module_name, category, entry) ==
    LET categories == GetOr(log, module_name, NewModule)
    IN Put(log, module_name,
           Put(categories, category, Append(Get(categories, category), entry)))

ParseCommitEager(log, commit) ==
    LET parts == Split(commit, SP)
        log1 == Put(log, ModuleName(parts), GetOr(log, ModuleName(parts), NewModule))
    IN IF Gitmoji(parts) = BOOKMARK THEN log1
       ELSE AppendEntry(log1, ModuleName(parts), Category(Gitmoji(parts)), Entry(parts))

\* one iteration of the loop over commits
ParseCommit(log, commit) ==
    LET parts == Split(commit, SP)
    IN IF Gitmoji(parts) = BOOKMARK THEN log
       ELSE AppendEntry(log, ModuleName(parts), Category(Gitmoji(parts)), Entry(parts))

RECURSIVE ParseFrom(_, _)
ParseFrom(log, lines) ==
    IF Len(lines) = 0 THEN log
    ELSE ParseFrom(ParseCommit(log, Head(lines)), Tail(lines))

ParseCommits(lines) == ParseFrom(<<>>, lines)

----------------------------------------------------------------------------
(* generate_markdown *)

\* s1 < s2 as Python compares str: by code point, a proper prefix first
RECURSIVE StrLess(_, _)
StrLess(s1, s2) ==
    IF Len(s2) = 0 THEN FALSE
    ELSE IF Len(s1) = 0 THEN TRUE
    ELSE IF Ord(s1[1]) # Ord(s2[1]) THEN Ord(s1[1]) < Ord(s2[1])
    ELSE StrLess(Tail(s1), Tail(s2))

RECURSIVE SortedDescending(_)
SortedDescending(keys) ==
    IF Len(keys) = 0 THEN <<>>
    ELSE LET m == CHOOSE i \in 1..Len(keys) :
                      \A j \in 1..Len(keys) : ~StrLess(keys[i], keys[j])
         IN <<keys[m]>> \o
            SortedDescending([i \in 1..(Len(keys) - 1) |->
                                 IF i < m THEN keys[i] ELSE keys[i + 1]])

\* sorted(keys) of distinct str
RECURSIVE Sorted(_)
Sorted(keys) ==
    IF Len(keys) = 0 THEN <<>>
    ELSE LET m == CHOOSE i \in 1..Len(keys) :
                      \A j \in 1..Len(keys) : ~StrLess(keys[j], keys[i])
         IN <<keys[m]>> \o
            Sorted([i \in 1..(Len(keys) - 1) |->
                       IF i < m THEN keys[i] ELSE keys[i + 1]])

\* the changelog after changelog.pop("project", {})
AfterPop(log) == Without(log, PROJECT)

\* sorted_changelog: "project" first, then the other modules sorted
SortedChangelog(log) ==
    << <<PROJECT, GetOr(log, PROJECT, <<>>)>> >> \o
    [i \in 1..Len(AfterPop(log)) |->
        <<Sorted(Keys(AfterPop(log)))[i],
          Get(AfterPop(log), Sorted(Keys(AfterPop(log)))[i])>>]

RECURSIVE RenderMessages(_)
RenderMessages(messages) ==
    IF Len(messages) = 0 THEN <<>>
    ELSE Bullet \o Head(messages) \o <<NL>> \o RenderMessages(Tail(messages))

\* the inner loop: a sub-heading and its entries for each non-empty category
RECURSIVE RenderCategories(_)
RenderCategories(categories) ==
    IF Len(categories) = 0 THEN <<>>
    ELSE (IF Len(Head(categories)[2]) > 0
          THEN CategoryHeading \o Head(categories)[1] \o <<NL>>
                  \o RenderMessages(Head(categories)[2])
          ELSE <<>>)
         \o RenderCategories(Tail(categories))

\* the outer loop over sorted_changelog.items()
RECURSIVE RenderModules(_)
RenderModules(items) ==
    IF Len(items) = 0 THEN <<>>
    ELSE (IF Head(items)[1] = PROJECT
          THEN ProjectHeading
          ELSE ModuleHeading \o Capitalize(Head(items)[1]) \o <<NL, NL>>)
         \o RenderCategories(Head(items)[2])
         \o <<NL>>
         \o RenderModules(Tail(items))

\* the text generate_markdown returns
GenerateMarkdown(log) == RenderModules(SortedChangelog(log))

----------------------------------------------------------------------------
(* Inputs *)

\* first tokens: a hash, and tokens shaped like a module or a marker
HashTokens == {<<"a", "1">>, <<"[", "m", "]">>, BUG, BOOKMARK}

\* tokens after the hash (<<>> is the empty field two adjacent spaces give)
TailTokens ==
    {<<"f", "i", "x">>, <<"[", "u", "i", "]">>, <<"[", "C", "o", "r", "e", "]">>,
     SPARKLES, BOOM, RECYCLE, BUG, BOOKMARK, <<":", "z", "a", "p", ":">>,
     <<":">>, <<>>}

Tails == UNION {[1..n -> TailTokens] : n \in 0..MaxTail}

\* single commit lines: a first token and up to MaxTail more
RichLines == {Join(<<h>> \o tl, <<SP>>) : h \in HashTokens, tl \in Tails}

\* "abc123 :sparkles: add feature"
ExampleAdded ==
    <<"a", "b", "c", "1", "2", "3", " ", ":", "s", "p", "a", "r", "k", "l", "e", "s", ":", " ", "a", "d", "d", " ", "f", "e", "a", "t", "u", "r", "e">>

\* "def456 [auth] :bug: fix login"
ExampleFixed ==
    <<"d", "e", "f", "4", "5", "6", " ", "[", "a", "u", "t", "h", "]", " ", ":", "b", "u", "g", ":", " ", "f", "i", "x", " ", "l", "o", "g", "i", "n">>

\* "ghi789 :bookmark: bump version"
ExampleBookmark ==
    <<"g", "h", "i", "7", "8", "9", " ", ":", "b", "o", "o", "k", "m", "a", "r", "k", ":", " ", "b", "u", "m", "p", " ", "v", "e", "r", "s", "i", "o", "n">>

\* "b2 [Zed] tidy up"
ExampleModuleOnly ==
    <<"b", "2", " ", "[", "Z", "e", "d", "]", " ", "t", "i", "d", "y", " ", "u", "p">>

\* "c3 [new] :bookmark: v1"
ExampleModuleBookmark ==
    <<"c", "3", " ", "[", "n", "e", "w", "]", " ", ":", "b", "o", "o", "k", "m", "a", "r", "k", ":", " ", "v", "1">>

\* "d4 [auth] :bug: go"
ExampleFixedAgain ==
    <<"d", "4", " ", "[", "a", "u", "t", "h", "]", " ", ":", "b", "u", "g", ":", " ", "g", "o">>

BasicLines ==
    {ExampleAdded, ExampleFixed, ExampleBookmark,
     ExampleModuleOnly, ExampleModuleBookmark, ExampleFixedAgain}

\* the lists of commit lines the model runs on
Lists == UNION {[1..n -> BasicLines] : n \in 1..MaxCommits}
Inputs == {<<l>> : l \in RichLines} \cup Lists

----------------------------------------------------------------------------
(* Specification of the function-level calls *)

Init ==
    /\ mode = "fn"
    /\ pc = "input"
    /\ commits \in Inputs
    /\ changelog = <<>>
    /\ outputs = <<>>
    /\ gitout = <<>>
    /\ last_tag = Unset
    /\ file = Prior
    /\ raised = FALSE

\* changelog = parse_commits(commits)
CallParseCommits ==
    /\ mode = "fn"
    /\ pc = "input"
    /\ changelog' = ParseCommits(commits)
    /\ pc' = "parsed"
    /\ UNCHANGED <<mode, commits, outputs, gitout, last_tag, file, raised>>

\* markdown = generate_markdown(changelog); the pop removes "project"
\* from the caller's dict
CallGenerateMarkdown ==
    /\ mode = "fn"
    /\ pc = "parsed"
    /\ Len(outputs) < MaxCalls
    /\ outputs' = Append(outputs, GenerateMarkdown(changelog))
    /\ changelog' = AfterPop(changelog)
    /\ UNCHANGED <<mode, pc, commits, gitout, last_tag, file, raised>>

Next == CallParseCommits \/ CallGenerateMarkdown

Spec == Init /\ [][Next]_vars

----------------------------------------------------------------------------
(* Specification of main() *)

\* what git log prints for a list of commit lines
Stdout(lines) == IF Len(lines) = 0 THEN <<>> ELSE Join(lines, <<NL>>) \o <<NL>>

InitMain ==
    /\ mode = "main"
    /\ pc = "describe"
    /\ commits = <<>>
    /\ changelog = <<>>
    /\ outputs = <<>>
    /\ gitout = <<>>
    /\ last_tag = Unset
    /\ file = Prior
    /\ raised = FALSE

\* git describe exits non-zero (no tag to describe): run_command prints the
\* error and returns None, get_commits_between_tags returns []
DescribeFails ==
    /\ mode = "main"
    /\ pc = "describe"
    /\ last_tag' = None
    /\ commits' = <<>>
    /\ pc' = "fetched"
    /\ UNCHANGED <<mode, changelog, outputs, gitout, file, raised>>

\* git cannot be run: the exception passes run_command and is caught in
\* get_commits_between_tags, which returns []
DescribeUnrunnable ==
    /\ mode = "main"
    /\ pc = "describe"
    /\ commits' = <<>>
    /\ pc' = "fetched"
    /\ UNCHANGED <<mode, changelog, outputs, gitout, last_tag, file, raised>>

\* git describe prints nothing: last_tag is the empty string
DescribeEmpty ==
    /\ mode = "main"
    /\ pc = "describe"
    /\ last_tag' = <<>>
    /\ commits' = <<>>
    /\ pc' = "fetched"
    /\ UNCHANGED <<mode, changelog, outputs, gitout, file, raised>>

\* git describe prints a tag
DescribeTag ==
    /\ mode = "main"
    /\ pc = "describe"
    /\ last_tag' = <<"v", "1">>
    /\ pc' = "log"
    /\ UNCHANGED <<mode, commits, changelog, outputs, gitout, file, raised>>

\* git log fails or cannot be run: [] either way
LogFails ==
    /\ mode = "main"
    /\ pc = "log"
    /\ commits' = <<>>
    /\ pc' = "fetched"
    /\ UNCHANGED <<mode, changelog, outputs, gitout, last_tag, file, raised>>

\* git log prints its lines; the stripped output is split into lines,
\* [] when it is empty
LogLines ==
    /\ mode = "main"
    /\ pc = "log"
    /\ \E lines \in Inputs \cup {<<>>} :
          /\ gitout' = Stdout(lines)
          /\ commits' = IF Len(Strip(Stdout(lines))) = 0 THEN <<>>
                        ELSE SplitLines(Strip(Stdout(lines)))
    /\ pc' = "fetched"
    /\ UNCHANGED <<mode, changelog, outputs, last_tag, file, raised>>

\* if not commits: the empty string is written and main returns; an open
\* that fails raises inside the try block
NoCommits ==
    /\ mode = "main"
    /\ pc = "fetched"
    /\ Len(commits) = 0
    /\ \/ /\ file' = <<>>
          /\ pc' = "done"
          /\ UNCHANGED raised
       \/ /\ raised' = TRUE
          /\ pc' = "handler"
          /\ UNCHANGED file
    /\ UNCHANGED <<mode, commits, changelog, outputs, gitout, last_tag>>

\* changelog = parse_commits(commits)
MainParse ==
    /\ mode = "main"
    /\ pc = "fetched"
    /\ Len(commits) > 0
    /\ changelog' = ParseCommits(commits)
    /\ pc' = "render"
    /\ UNCHANGED <<mode, commits, outputs, gitout, last_tag, file, raised>>

\* markdown = generate_markdown(changelog)
MainRender ==
    /\ mode = "main"
    /\ pc = "render"
    /\ outputs' = Append(outputs, GenerateMarkdown(changelog))
    /\ changelog' = AfterPop(changelog)
    /\ pc' = "write"
    /\ UNCHANGED <<mode, commits, gitout, last_tag, file, raised>>

\* with open("Changelog.md", "w") as file: file.write(markdown)
\* the open can fail (file untouched); after the open has truncated the file
\* the write can fail and leave any proper prefix of the text behind
WriteMarkdown ==
    /\ mode = "main"
    /\ pc = "write"
    /\ \/ /\ file' = outputs[1]
          /\ pc' = "done"
          /\ UNCHANGED raised
       \/ /\ raised' = TRUE
          /\ pc' = "handler"
          /\ UNCHANGED file
       \/ /\ \E k \in 0..(Len(outputs[1]) - 1) : file' = SubSeq(outputs[1], 1, k)
          /\ raised' = TRUE
          /\ pc' = "handler"
    /\ UNCHANGED <<mode, commits, changelog, outputs, gitout, last_tag>>

\* except Exception: the diagnostic is printed and the empty string is
\* written; nothing catches a failure of this open, which leaves main
Handler ==
    /\ mode = "main"
    /\ pc = "handler"
    /\ \/ /\ file' = <<>>
          /\ pc' = "done"
       \/ /\ pc' = "crashed"
          /\ UNCHANGED file
    /\ UNCHANGED <<mode, commits, changelog, outputs, gitout, last_tag, raised>>

NextMain ==
    \/ DescribeFails \/ DescribeUnrunnable \/ DescribeEmpty \/ DescribeTag
    \/ LogFails \/ LogLines
    \/ NoCommits \/ MainParse \/ MainRender \/ WriteMarkdown \/ Handler

SpecMain == InitMain /\ [][NextMain]_vars

\* the tag lookup yielded no tag
NoTag == last_tag = None \/ last_tag = <<>>

\* exit status of the process: an exception that leaves main ends it with 1
ExitStatus == IF pc = "crashed" THEN 1 ELSE 0

----------------------------------------------------------------------------
(* Notions the properties are stated with *)

\* the tokens of a commit line
Tokens(line) == Split(line, SP)

\* a token of the form [x]
HasBracketForm(tok) == Len(tok) >= 2 /\ tok[1] = "[" /\ tok[Len(tok)] = "]"

\* a token the marker scan accepts: it starts with a colon and ends with one
HasMarkerForm(tok) == Len(tok) >= 1 /\ tok[1] = ":" /\ tok[Len(tok)] = ":"

\* position (from 1) of the first marker token of a line, 0 when it has none
MarkerPos(toks) ==
    IF \E i \in 1..Len(toks) : HasMarkerForm(toks[i])
    THEN CHOOSE i \in 1..Len(toks) :
             HasMarkerForm(toks[i]) /\ \A j \in 1..(i - 1) : ~HasMarkerForm(toks[j])
    ELSE 0

\* the marker of a line, None when it has none
Marker(toks) == IF MarkerPos(toks) = 0 THEN None ELSE toks[MarkerPos(toks)]

\* the line is not dropped
Kept(line) == Marker(Tokens(line)) # BOOKMARK

Range(seq) == {seq[i] : i \in 1..Len(seq)}

\* the four categories in display order
Cats == <<ADDED, CHANGED, FIXED, MISC>>

\* the entries of bucket (m, c) of a changelog, empty when it has no such bucket
Bucket(log, m, c) ==
    IF HasKey(log, m) /\ HasKey(Get(log, m), c) THEN Get(Get(log, m), c) ELSE <<>>

\* the state right after parse_commits returned
FnParsed == mode = "fn" /\ pc = "parsed" /\ outputs = <<>>

\* generate_markdown has returned at least once
FnRendered == mode = "fn" /\ Len(outputs) >= 1

\* text contains pat
Contains(text, pat) ==
    \E i \in 1..(Len(text) - Len(pat) + 1) : SubSeq(text, i, i + Len(pat) - 1) = pat

----------------------------------------------------------------------------
(* C1 *)

\* the message the claim describes: the tokens after the marker, or after
\* the hash when there is no marker, joined by single spaces
ClaimedMessage(toks) ==
    Join(SubSeq(toks, (IF MarkerPos(toks) = 0 THEN 1 ELSE MarkerPos(toks)) + 1,
                Len(toks)), <<SP>>)

\* C1: for every commit line that is filed, the stored entry is the hash,
\* ": " and the message made of all tokens after the marker token (after
\* the hash when the line has no marker), joined by single spaces.
C1_MessageAfterMarker ==
    FnParsed =>
        \A i \in 1..Len(commits) :
            Kept(commits[i]) =>
                \E m \in Range(Keys(changelog)), c \in Range(Cats) :
                    (Tokens(commits[i])[1] \o ColonSpace
                        \o ClaimedMessage(Tokens(commits[i])))
                    \in Range(Bucket(changelog, m, c))

----------------------------------------------------------------------------
(* C2 *)

OrdinaryHash == <<"a", "1">>

\* the tokens of the line with an ordinary hash in place of the first token
WithOrdinaryHash(toks) == <<OrdinaryHash>> \o Tail(toks)

\* C2: a line whose first token looks like [x] or :x: is parsed as the same
\* line with an ordinary hash: same module, same marker and category, same
\* message, the first token being only the hash of the entry.
C2_HashOnlyPositional ==
    (FnParsed /\ Len(commits) = 1) =>
        LET toks == Tokens(commits[1])
            ref == WithOrdinaryHash(toks)
        IN (HasBracketForm(toks[1]) \/ HasMarkerForm(toks[1])) =>
               changelog =
                   IF Gitmoji(ref) = BOOKMARK THEN <<>>
                   ELSE AppendEntry(<<>>, ModuleName(ref), Category(Gitmoji(ref)),
                                    toks[1] \o ColonSpace \o CommitMessage(ref))

----------------------------------------------------------------------------
(* C3 *)

LineModule(line) == ModuleName(Tokens(line))
LineCategory(line) == Category(Gitmoji(Tokens(line)))

\* the entries of the kept input lines that map to bucket (m, c), in input order
RECURSIVE ExpectedBucket(_, _, _)
ExpectedBucket(lines, m, c) ==
    IF Len(lines) = 0 THEN <<>>
    ELSE (IF Kept(Head(lines)) /\ LineModule(Head(lines)) = m
             /\ LineCategory(Head(lines)) = c
          THEN <<Entry(Tokens(Head(lines)))>> ELSE <<>>)
         \o ExpectedBucket(Tail(lines), m, c)

KeptLines == {i \in 1..Len(commits) : Kept(commits[i])}

RECURSIVE Sum(_)
Sum(ints) == IF Len(ints) = 0 THEN 0 ELSE Head(ints) + Sum(Tail(ints))

\* number of entries of the whole changelog
EntryCount(log) ==
    Sum([i \in 1..Len(log) |->
            Sum([k \in 1..Len(log[i][2]) |-> Len(log[i][2][k][2])])])

\* C3: the changelog parse_commits returns has one module per module of a
\* kept line and no other, each module with the four categories, and each
\* bucket holds exactly the entries of the kept lines that map to it, in
\* input order, repeats kept; a :bookmark: line adds no entry and no module.
C3_Buckets ==
    FnParsed =>
        /\ Range(Keys(changelog)) = {LineModule(commits[i]) : i \in KeptLines}
        /\ Cardinality(Range(Keys(changelog))) = Len(changelog)
        /\ \A m \in Range(Keys(changelog)) :
              /\ Keys(Get(changelog, m)) = Cats
              /\ \A c \in Range(Cats) :
                    Get(Get(changelog, m), c) = ExpectedBucket(commits, m, c)
        /\ EntryCount(changelog) = Cardinality(KeptLines)

\* a repeated line gave two equal entries in one bucket, and a :bookmark:
\* line that names a module left no module behind
C3_Witness ==
    /\ FnParsed
    /\ \E m \in Range(Keys(changelog)), c \in Range(Cats) :
          /\ Len(Bucket(changelog, m, c)) = 2
          /\ Bucket(changelog, m, c)[1] = Bucket(changelog, m, c)[2]
    /\ \E i \in 1..Len(commits) :
          /\ ~Kept(commits[i])
          /\ \E j \in 1..Len(Tokens(commits[i])) : HasBracketForm(Tokens(commits[i])[j])
          /\ ~HasKey(changelog, LineModule(commits[i]))

----------------------------------------------------------------------------
(* C6 *)

BracketTokens(toks) == {j \in 1..Len(toks) : HasBracketForm(toks[j])}

\* the entry of the line is filed under module m
FiledUnder(line, m) ==
    /\ HasKey(changelog, m)
    /\ \E c \in Range(Cats) : Entry(Tokens(line)) \in Range(Bucket(changelog, m, c))
    /\ Len(commits) = 1 => Keys(changelog) = <<m>>

\* C6: a filed line with no token of the form [x] is filed under "project";
\* a filed line with exactly one token of the form [x] is filed under x,
\* with the case of x unchanged.
C6_Module ==
    FnParsed =>
        \A i \in 1..Len(commits) :
            Kept(commits[i]) =>
                LET toks == Tokens(commits[i]) IN
                /\ BracketTokens(toks) = {} => FiledUnder(commits[i], PROJECT)
                /\ \A j \in BracketTokens(toks) :
                      BracketTokens(toks) = {j} =>
                          FiledUnder(commits[i], SubSeq(toks[j], 2, Len(toks[j]) - 1))

\* a line whose only bracket token is [Core] was filed under Core, and
\* (in another state) a line without a bracket token under project
C6_Witness ==
    /\ FnParsed
    /\ Len(commits) = 1
    /\ Kept(commits[1])
    /\ \E j \in 2..Len(Tokens(commits[1])) :
          /\ BracketTokens(Tokens(commits[1])) = {j}
          /\ Tokens(commits[1])[j] = <<"[", "C", "o", "r", "e", "]">>
    /\ Keys(changelog) = << <<"C", "o", "r", "e">> >>

----------------------------------------------------------------------------
(* C7 *)

\* the category the lookup table of the claim gives a marker
ClaimedCategory(marker) ==
    IF marker = SPARKLES \/ marker = BOOM THEN ADDED
    ELSE IF marker = RECYCLE THEN CHANGED
    ELSE IF marker = BUG THEN FIXED
    ELSE MISC

\* C7: a filed line is filed in the category of its marker (the first token
\* that starts and ends with a colon): Added for :sparkles: and :boom:,
\* Changed for :recycle:, Fixed for :bug:, Misc for any other marker and for
\* no marker; a line with neither marker nor module token gives exactly one
\* entry, under project / Misc.
C7_Category ==
    FnParsed =>
        \A i \in 1..Len(commits) :
            Kept(commits[i]) =>
                LET toks == Tokens(commits[i])
                    cat == ClaimedCategory(Marker(toks))
                IN
                /\ \E m \in Range(Keys(changelog)) :
                      Entry(toks) \in Range(Bucket(changelog, m, cat))
                /\ Len(commits) = 1 =>
                      \A m \in Range(Keys(changelog)), c \in Range(Cats) :
                          Len(Bucket(changelog, m, c)) = IF c = cat THEN 1 ELSE 0
                /\ (Len(commits) = 1 /\ MarkerPos(toks) = 0 /\ BracketTokens(toks) = {}) =>
                      changelog =
                          << <<PROJECT, << <<ADDED, <<>> >>, <<CHANGED, <<>> >>,
                                           <<FIXED, <<>> >>, <<MISC, <<Entry(toks)>> >> >> >> >>

\* a line whose marker is :boom: was filed under Added
C7_Witness ==
    /\ FnParsed
    /\ Len(commits) = 1
    /\ Marker(Tokens(commits[1])) = BOOM
    /\ \E m \in Range(Keys(changelog)) : Len(Bucket(changelog, m, ADDED)) = 1

----------------------------------------------------------------------------
(* C8 *)

HeadingLine(m) ==
    IF m = PROJECT THEN <<"#", " ", "P", "r", "o", "j", "e", "c", "t">>
    ELSE <<"#", " ", "M", "o", "d", "u", "l", "e", ":", " ">> \o Capitalize(m)

\* the lines of category k of module m: nothing for an empty category, else
\* the sub-heading and one "- entry" line per entry
CategoryLines(log, m, k) ==
    IF Len(Bucket(log, m, Cats[k])) = 0 THEN <<>>
    ELSE << <<"#", "#", " ">> \o Cats[k] >> \o
         [j \in 1..Len(Bucket(log, m, Cats[k])) |->
             <<"-", " ">> \o Bucket(log, m, Cats[k])[j]]

\* the lines of the section of module m: heading, blank line, the
\* categories in the fixed order, blank line
SectionLines(log, m) ==
    <<HeadingLine(m), <<>> >>
        \o CategoryLines(log, m, 1) \o CategoryLines(log, m, 2)
        \o CategoryLines(log, m, 3) \o CategoryLines(log, m, 4)
        \o << <<>> >>

RECURSIVE DocumentLines(_, _)
DocumentLines(log, modules) ==
    IF Len(modules) = 0 THEN <<>>
    ELSE SectionLines(log, Head(modules)) \o DocumentLines(log, Tail(modules))

\* the modules of a changelog other than project
OtherModules(log) == Range(Keys(log)) \ {PROJECT}

\* the arrangements of a set of modules in strictly ascending order
AscendingOrders(modules) ==
    {ms \in [1..Cardinality(modules) -> modules] :
        \A i, j \in 1..Cardinality(modules) : i < j => StrLess(ms[i], ms[j])}

----------------------------------------------------------------------------
(* C9 *)

ExampleDocument ==
    <<"#", " ", "P", "r", "o", "j", "e", "c", "t", "\n", "\n", "#", "#", " ", ":", "s", "p", "a", "r", "k", "l", "e", "s", ":", " ", "A", "d", "d", "e", "d", "\n", "-", " ", "a", "b", "c", "1", "2", "3", ":", " ", "a", "d", "d", " ", "f", "e", "a", "t", "u", "r", "e", "\n", "\n", "#", " ", "M", "o", "d", "u", "l", "e", ":", " ", "A", "u", "t", "h", "\n", "\n", "#", "#", " ", ":", "b", "u", "g", ":", " ", "F", "i", "x", "e", "d", "\n", "-", " ", "d", "e", "f", "4", "5", "6", ":", " ", "f", "i", "x", " ", "l", "o", "g", "i", "n", "\n", "\n">>

\* C9: the three example lines give exactly the document with one Added
\* entry "abc123: add feature" under Project and one Fixed entry
\* "def456: fix login" under Module: Auth, without "ghi789"; and for every
\* input the document is the one of the input without its :bookmark: lines.
C9_Example ==
    FnRendered =>
        /\ commits = <<ExampleAdded, ExampleFixed, ExampleBookmark>> =>
              /\ outputs[1] = ExampleDocument
              /\ ~Contains(outputs[1], <<"g", "h", "i", "7", "8", "9">>)
        /\ outputs[1] = GenerateMarkdown(ParseCommits(SelectSeq(commits, Kept)))

\* the three example lines were parsed and rendered
C9_Witness ==
    /\ FnRendered
    /\ commits = <<ExampleAdded, ExampleFixed, ExampleBookmark>>

----------------------------------------------------------------------------
(* C10 *)

\* C10: generate_markdown leaves the changelog it is given unchanged: a
\* second call on the same mapping returns the text of the first.
C10_SameTextTwice ==
    (mode = "fn" /\ Len(outputs) >= 2) => outputs[2] = outputs[1]

----------------------------------------------------------------------------
(* C4, C5 *)

MainEnded == mode = "main" /\ (pc = "done" \/ pc = "crashed")

\* C4: after a run of main, what main wrote to Changelog.md is the whole
\* rendered document exactly when commits were fetched and nothing raised,
\* and the empty string otherwise, never a part of the document; and when
\* the tag lookup yields no tag main returns without raising.
C4_FullOrEmpty ==
    MainEnded =>
        /\ file # Prior =>
              \/ /\ Len(commits) > 0
                 /\ ~raised
                 /\ file = GenerateMarkdown(ParseCommits(commits))
              \/ /\ Len(commits) = 0 \/ raised
                 /\ file = <<>>
        /\ NoTag => pc # "crashed"

\* C5: every run ends with exit status zero.
C5_ExitZero ==
    MainEnded => ExitStatus = 0

====
